---- MODULE Spec2Model ----
(***************************************************************************)
(* A model of the three MongoDB tools of this repository:                  *)
(*   mongodb_drop.py    drop_mongodb_database, list_databases, __main__    *)
(*   mongodb_import.py  import_mongodb_database, __main__                  *)
(*   mongodb_export.py  export_mongodb_database, __main__                  *)
(* One behaviour is one invocation of one tool against a server and a      *)
(* snapshot directory, from __main__ to the exit of the process.  Every    *)
(* call to the server, the console or the file system is one step, which   *)
(* either returns or raises.  SpecSnapshot runs the export tool again      *)
(* after a run that ended well; SpecCodec applies the encoder and          *)
(* convert_json_to_bson to single documents, SpecNames the naming of units *)
(* to single collection names.                                             *)
(*                                                                         *)
(* Text is a sequence of tokens: a word, the extension ".json", or the     *)
(* blank " ".  strip, lower, endswith and replace work on these tokens.    *)
(***************************************************************************)
EXTENDS Integers, Sequences, FiniteSets, TLC

\* ------------------------------------------------------------------ bounds

\* Identifiers of documents are 1..MaxDoc.
MaxDoc == 2

\* Writes that other clients of the server make while the drop tool runs.
MaxEnvWrites == 1

\* A serialized unit holds at most MaxLen documents.
MaxLen == 2

\* A collection name has at most MaxName tokens.
MaxName == 3

\* The export tool is run at most MaxRuns times in a row.
MaxRuns == 2

\* ------------------------------------------------------------------ text

\* str.strip() without its leading blanks.
RECURSIVE LStrip(_)
LStrip(s) ==
    IF s # <<>> /\ Head(s) = " " THEN LStrip(Tail(s)) ELSE s

\* str.strip() without its trailing blanks.
RECURSIVE RStrip(_)
RStrip(s) ==
    IF s # <<>> /\ s[Len(s)] = " " THEN RStrip(SubSeq(s, 1, Len(s) - 1)) ELSE s

\* str.strip(): the text without its surrounding whitespace.
Strip(s) == RStrip(LStrip(s))

\* str.lower() on one token.
LowerToken(t) ==
    CASE t = "YES" -> "yes"
      [] t = "Y" -> "y"
      [] t = "NO" -> "no"
      [] t = "APP" -> "app"
      [] t = "DELETE" -> "delete"
      [] OTHER -> t

\* str.lower(): every token in lower case.
Lower(s) == [i \in 1..Len(s) |-> LowerToken(s[i])]

\* The text of a database name.
Text(name) == <<name>>

\* The lines an operator may type at a prompt.
Lines ==
    { <<"yes">>, <<"y">>, <<" ", "YES", " ">>, <<"Y">>, <<"no">>, <<>>,
      <<"yes", " ", "y">>,
      <<"app">>, <<" ", "app", " ">>, <<"APP">>, <<"bak">>, <<"app", " ", "app">>,
      <<"DELETE">>, <<"DELETE", " ">>, <<"delete">> }

\* ---------------------------------------------------------------- server

\* The databases the server reserves for itself.
ReservedDbs == {"admin", "local", "config"}

\* The databases users keep.
UserDbs == {"app", "bak"}

DbNames == UserDbs \cup ReservedDbs

\* The order in which the server enumerates databases.
DbOrder == <<"admin", "app", "bak", "config", "local">>

\* The collection names in use.
CollNames == {<<"u">>, <<"v">>}

DocIds == 1..MaxDoc

\* A unique identifier in a serialized unit: its 24-character hexadecimal text.
HexId(i) == [type |-> "str", n |-> i]

\* A unique identifier on the server.
ObjectId(i) == [type |-> "ObjectId", n |-> i]

\* A document of a serialized unit, and a document of the server.
JsonDoc(i) == [_id |-> HexId(i)]

BsonDoc(i) == [_id |-> ObjectId(i)]

\* A collection that does not exist.
NoCollection == [exists |-> FALSE, docs |-> {}]

Collection(ds) == [exists |-> TRUE, docs |-> ds]

\* A database exists on the server when it holds a collection.
DbExists(srv, d) == \E c \in CollNames : srv[d][c].exists

\* client.list_database_names(): the existing databases, in server order.
ListDatabaseNames(srv) == SelectSeq(DbOrder, LAMBDA d : DbExists(srv, d))

\* db.list_collection_names(): the existing collections of a database.
ListCollectionNames(srv, d) == {c \in CollNames : srv[d][c].exists}

\* collection.count_documents({}).
CountDocuments(srv, d, c) == Cardinality(srv[d][c].docs)

\* client.drop_database(name): the server without the database.
DropDatabase(srv, d) == [srv EXCEPT ![d] = [c \in CollNames |-> NoCollection]]

\* Membership in a list.
InList(x, list) == \E i \in 1..Len(list) : list[i] = x

\* All orders of a finite set.
Orders(S) ==
    {p \in [1..Cardinality(S) -> S] : \A x \in S : \E i \in 1..Cardinality(S) : p[i] = x}

\* ----------------------------------------------------------------- codec

\* A value is a record with a type.  A text is HexId(i), the 24 hexadecimal
\* characters of identifier i, or Str(s) for a sequence s of tokens that is
\* not hexadecimal.  A mapping is a function from keys to values, a document
\* is the function itself.
Null == [type |-> "null"]

Bool(b) == [type |-> "bool", b |-> b]

Num(i) == [type |-> "number", i |-> i]

Str(s) == [type |-> "str", text |-> s]

\* A datetime: the date, T, the time and the fraction of a second it shows,
\* and its tzinfo, "" for none.
Datetime(at, tz) == [type |-> "datetime", at |-> at, tzinfo |-> tz]

\* A value of a type json does not know and the encoder does not handle.
Binary == [type |-> "Binary"]

Dict(items) == [type |-> "dict", items |-> items]

List(items) == [type |-> "list", items |-> items]

\* An exception in place of a value.
Raised(e) == [type |-> "raised", error |-> e]

\* The length an ObjectId's text has.
ObjectIdTextLen == 24

\* len(s) of a sequence of tokens.
RECURSIVE TextLen(_)
TextLen(s) ==
    IF s = <<>> THEN 0 ELSE Len(Head(s)) + TextLen(Tail(s))

\* isinstance(value, str)
IsStr(v) == v.type = "str"

\* len(value) of a text.
StrLen(v) == IF "text" \in DOMAIN v THEN TextLen(v.text) ELSE ObjectIdTextLen

\* ObjectId(value): the identifier of 24 hexadecimal characters; any other
\* text raises.
ParseObjectId(v) ==
    IF "n" \in DOMAIN v THEN ObjectId(v.n) ELSE Raised("InvalidId")

\* Four digits, two digits and two digits joined by dashes; the second is not
\* a date of the calendar.
DateLike == {"2024-01-02", "2024-13-45"}

Dates == {"2024-01-02"}

\* Three pairs of digits joined by colons; the second is not a time of day.
TimeLike == {"03:04:05", "99:99:99"}

Times == {"03:04:05"}

\* The fractions of a second and the offsets a text may end with.
Fractions == {".123000"}

Offsets == {"+00:00", "+02:00"}

\* re.match(r'\d{4}-\d{2}-\d{2}T\d{2}:\d{2}:\d{2}', value): the text begins
\* with the pattern.
MatchesDate(v) ==
    /\ "text" \in DOMAIN v
    /\ Len(v.text) >= Len(<<"date", "T", "time">>)
    /\ v.text[1] \in DateLike
    /\ v.text[2] = "T"
    /\ v.text[3] \in TimeLike

\* value.replace('Z', '+00:00')
ReplaceZ(s) == [i \in 1..Len(s) |-> IF s[i] = "Z" THEN "+00:00" ELSE s[i]]

\* datetime.fromisoformat(s): a date and a time of day, then a fraction, an
\* offset, both or neither; anything else raises.
fromisoformat(s) ==
    LET shown == <<"date", "T", "time">>
        rest == SubSeq(s, Len(shown) + 1, Len(s))
    IN  IF Len(s) >= Len(shown) /\ s[1] \in Dates /\ s[2] = "T" /\ s[3] \in Times
        THEN CASE rest = <<>> -> Datetime(s, "")
               [] Len(rest) = 1 /\ rest[1] \in Fractions -> Datetime(s, "")
               [] Len(rest) = 1 /\ rest[1] \in Offsets ->
                      Datetime(SubSeq(s, 1, Len(s) - 1), rest[1])
               [] Len(rest) = 2 /\ rest[1] \in Fractions /\ rest[2] \in Offsets ->
                      Datetime(SubSeq(s, 1, Len(s) - 1), rest[2])
               [] OTHER -> Raised("ValueError")
        ELSE Raised("ValueError")

\* datetime.isoformat(): what the datetime shows, then its offset if it has one.
isoformat(dt) == Str(dt.at \o (IF dt.tzinfo = "" THEN <<>> ELSE <<dt.tzinfo>>))

\* JSONEncoder.default(obj), called for a value json does not know.
JSONEncoderDefault(obj) ==
    CASE obj.type = "ObjectId" -> HexId(obj.n)
      [] obj.type = "datetime" -> isoformat(obj)
      [] OTHER -> Raised("TypeError")

\* json.dump(value, cls=JSONEncoder) on one value.
RECURSIVE EncodeValue(_)
EncodeValue(v) ==
    CASE v.type = "dict" -> Dict([k \in DOMAIN v.items |-> EncodeValue(v.items[k])])
      [] v.type = "list" -> List([i \in 1..Len(v.items) |-> EncodeValue(v.items[i])])
      [] v.type \in {"str", "number", "bool", "null"} -> v
      [] OTHER -> JSONEncoderDefault(v)

\* json.dump on one document.
EncodeDoc(d) == [k \in DOMAIN d |-> EncodeValue(d[k])]

\* An exception was raised within the value.
RECURSIVE HasRaised(_)
HasRaised(v) ==
    CASE v.type = "raised" -> TRUE
      [] v.type = "dict" -> \E k \in DOMAIN v.items : HasRaised(v.items[k])
      [] v.type = "list" -> \E i \in 1..Len(v.items) : HasRaised(v.items[i])
      [] OTHER -> FALSE

\* A conversion that lets the exception through.
TryNoExcept(r, value) == r

\* try: converted[key] = r; except: converted[key] = value
Try(r, value) == IF r.type = "raised" THEN value ELSE r

RECURSIVE ConvertValue(_)

\* A conversion of a key's value that recovers no type.
ConvertItemAsIs(key, value) == ConvertValue(value)

\* convert_json_to_bson, the body of the loop over the items of a mapping.
ConvertItem(key, value) ==
    IF key = "_id" /\ IsStr(value) /\ StrLen(value) = ObjectIdTextLen
    THEN Try(ParseObjectId(value), value)
    ELSE IF IsStr(value) /\ MatchesDate(value)
    THEN Try(fromisoformat(ReplaceZ(value.text)), value)
    ELSE ConvertValue(value)

\* convert_json_to_bson on one document.
ConvertDoc(d) == [k \in DOMAIN d |-> ConvertItem(k, d[k])]

\* convert_json_to_bson on what is not known to be a mapping's value.
ConvertValue(v) ==
    CASE v.type = "dict" -> Dict(ConvertDoc(v.items))
      [] v.type = "list" -> List([i \in 1..Len(v.items) |-> ConvertValue(v.items[i])])
      [] OTHER -> v

\* ----------------------------------------------------------------- state

VARIABLES
    op,                    \* the command run: list, drop, force, export, import
    env,                   \* the environment variables that are set
    confirm,               \* drop_mongodb_database's confirm parameter
    database_name,         \* the database to drop or to export
    source_database_name,  \* import: the snapshot directory's name
    target_database_name,  \* import: the database loaded into
    pc,                    \* the place in the code
    client,                \* the connection: none, open, closed
    result,                \* the function's return value: none, True, False, ...
    ret,                   \* the return statement taken, file:line
    exitCode,              \* the process exit code, -1 while running
    server,                \* database -> collection -> [exists, docs]
    fs,                    \* snapshot directory -> [exists, files]
    calls,                 \* the commands sent to the server, in order
    inputs,                \* the lines read from the console, in order
    found,                 \* the existence check: unchecked, present, absent
    response1,             \* drop: the normalised answers of the three gates
    response2,
    response3,
    rechecked,             \* drop: the check after the drop: unchecked, present, absent
    envWrites,             \* writes made by other clients so far
    collection_name,       \* import, export: the collection at hand
    documents,             \* import: the unit read; export: the documents fetched
    json_files,            \* import: the units still to process, in listing order
    json_file,             \* import: the unit at hand
    total_documents,       \* import: the running total of inserted documents
    cur,                   \* import: the target collection and the number of calls
                           \*         when the unit at hand was begun
    last,                  \* import: the record of the unit just processed, until
                           \*         the next unit is begun
    collections,           \* export: the collections still to export, in order
    enumerated,            \* export: the collection enumeration: no, failed, ok
    exported,              \* export: unit name -> what this run wrote to it
    databases,             \* list: the names list_database_names returned
    dbQueue,               \* list: the databases still to report, in order
    report,                \* list: database -> the counts printed for it
    runs,                  \* export: the number of this run among the runs of the tool
    native,                \* codec: the document in its native form
    portable,              \* codec: the document in its portable form
    restored,              \* codec: the document decoded from its portable form
    exported_name,         \* naming: the collection export writes a unit for
    file_name,             \* naming: the name of that unit
    imported_name          \* naming: the collection import derives from the name

\* The locals of drop_mongodb_database.
dropLocals == <<inputs, found, response1, response2, response3, rechecked>>

dropVars ==
    <<confirm, database_name, inputs, found, response1, response2, response3, rechecked>>

importVars == <<json_files, json_file, total_documents, cur, last>>

exportVars == <<collections, enumerated, exported>>

listVars == <<databases, dbQueue, report>>

localVars == <<collection_name, documents>>

\* The codec and the naming of units, taken by themselves.
pureVars == <<native, portable, restored, exported_name, file_name, imported_name>>

\* What one run of a tool neither reads nor writes.
otherVars == <<runs, pureVars>>

\* What the codec and the naming of units neither read nor write.
toolVars ==
    <<op, env, confirm, database_name, source_database_name, target_database_name,
      client, result, ret, exitCode, server, fs, calls, inputs, found, response1,
      response2, response3, rechecked, envWrites, collection_name, documents,
      json_files, json_file, total_documents, cur, last, collections, enumerated,
      exported, databases, dbQueue, report, runs>>

\* What drop_mongodb_database neither reads nor writes.
nonDropVars ==
    <<op, env, source_database_name, target_database_name, fs, localVars, importVars,
      exportVars, listVars, otherVars>>

envVars == <<nonDropVars, envWrites>>

\* The command line and environment of the run.
args ==
    <<op, env, confirm, database_name, source_database_name, target_database_name>>

vars == <<op, env, confirm, database_name, source_database_name, target_database_name,
          pc, client, result, ret, exitCode, server, fs, calls, inputs, found,
          response1, response2, response3, rechecked, envWrites, collection_name,
          documents, json_files, json_file, total_documents, cur, last, collections,
          enumerated, exported, databases, dbQueue, report, runs, native, portable,
          restored, exported_name, file_name, imported_name>>

\* A gate's answer before it is read.
Unset == <<"unset">>

\* ------------------------------------------------------------------ init

\* The contents a collection may start with: absent, empty, or documents 1..k.
InitColls ==
    {NoCollection, Collection({})}
        \cup {Collection({BsonDoc(i) : i \in 1..k}) : k \in 1..MaxDoc}

\* The servers a run may start against: app is any database over InitColls,
\* bak is absent or holds one document, config is absent or holds one
\* document, admin and local exist.
InitServers ==
    { [d \in DbNames |->
          CASE d = "app" -> app
            [] d = "bak" -> [c \in CollNames |->
                                IF bak /\ c = <<"u">> THEN Collection({BsonDoc(1)})
                                ELSE NoCollection]
            [] d = "config" -> [c \in CollNames |->
                                IF cfg /\ c = <<"v">> THEN Collection({BsonDoc(1)})
                                ELSE NoCollection]
            [] OTHER -> [c \in CollNames |->
                                IF c = <<"u">> THEN Collection({}) ELSE NoCollection]]
      : app \in [CollNames -> InitColls], bak \in BOOLEAN, cfg \in BOOLEAN }

\* The environment variables the tools read.
EnvNames == {"MONGODB_CONNECTION_STRING", "DATABASE_NAME", "TARGET_DATABASE_NAME"}

\* os.getenv(name) of a variable that is not set, passed on as a name.
None == "None"

\* The names of the files a snapshot directory may hold.
FileNames == {<<"u", ".json">>, <<"v", ".json">>, <<"notes", ".txt">>}

\* A serialized unit: a sequence of documents (kind list) or one standalone
\* document (kind dict); an empty mapping is a dict without entries.
ListUnit(ds) == [kind |-> "list", docs |-> ds]

DictUnit(ds) == [kind |-> "dict", docs |-> ds]

\* The sequences of at most n elements of S.
SeqsUpTo(S, n) == UNION {[1..k -> S] : k \in 0..n}

\* The units a file may hold: the lists of at most MaxLen documents, one
\* standalone document, and the empty mapping.
Units ==
    {ListUnit(ds) : ds \in SeqsUpTo({JsonDoc(i) : i \in DocIds}, MaxLen)}
        \cup {DictUnit(<<JsonDoc(i)>>) : i \in DocIds}
        \cup {DictUnit(<<>>)}

\* No record of a processed unit yet.
NoLast ==
    [file |-> <<>>, unit |-> ListUnit(<<>>), before |-> NoCollection,
     after |-> NoCollection, outcome |-> "none", writes |-> 0, inserted |-> 0]

\* A snapshot root without directories.
EmptyFs == [d \in UserDbs |-> [exists |-> FALSE, files |-> {}]]

\* A document without keys.
NoDoc == [k \in {} |-> 0]

\* The codec and the naming of units are not at work.
InitPure ==
    /\ native = NoDoc
    /\ portable = NoDoc
    /\ restored = NoDoc
    /\ exported_name = <<>>
    /\ file_name = <<>>
    /\ imported_name = <<>>

\* Nothing has been done yet.
InitLocals ==
    /\ runs = 1
    /\ client = "none"
    /\ result = "none"
    /\ ret = "none"
    /\ exitCode = -1
    /\ calls = <<>>
    /\ inputs = <<>>
    /\ found = "unchecked"
    /\ response1 = Unset
    /\ response2 = Unset
    /\ response3 = Unset
    /\ rechecked = "unchecked"
    /\ envWrites = 0
    /\ collection_name = <<>>
    /\ documents = ListUnit(<<>>)
    /\ json_files = <<>>
    /\ json_file = <<>>
    /\ total_documents = 0
    /\ cur = [before |-> NoCollection, start |-> 0]
    /\ last = NoLast
    /\ collections = <<>>
    /\ enumerated = "no"
    /\ exported = [f \in {} |-> 0]
    /\ databases = <<>>
    /\ dbQueue = <<>>
    /\ report = [d \in {} |-> 0]

InitCommon ==
    /\ pc = "main"
    /\ server \in InitServers
    /\ InitLocals
    /\ InitPure

\* python3 mongodb_drop.py drop|force [database_name], without a command
\* (usage) or with a command it does not know (unknown).
InitDrop ==
    /\ InitCommon
    /\ ~DbExists(server, "config")
    /\ op \in {"drop", "force", "usage", "unknown"}
    /\ env \in {EnvNames, EnvNames \ {"MONGODB_CONNECTION_STRING"}}
    /\ confirm = (op = "force")
    /\ database_name \in UserDbs
    /\ source_database_name = "app"
    /\ target_database_name = "app"
    /\ fs = EmptyFs

\* ---------------------------------------------------------------- __main__

\* print, sys.exit(1) at the given line.
ExitAt(line) ==
    /\ pc' = "exited"
    /\ exitCode' = 1
    /\ ret' = line

\* __main__ of mongodb_drop.py up to the call of drop_mongodb_database: the
\* connection string, the command, and the name, which is asked for when the
\* command line lacks it; no name typed ends the run.
DropMain ==
    /\ op \in {"drop", "force", "usage", "unknown"}
    /\ pc = "main"
    /\ IF "MONGODB_CONNECTION_STRING" \notin env THEN ExitAt("drop:128")
       ELSE IF op = "usage" THEN ExitAt("drop:147")
       ELSE IF op = "unknown" THEN ExitAt("drop:198")
       ELSE \/ /\ pc' = "start"
               /\ UNCHANGED <<exitCode, ret>>
            \/ ExitAt(IF op = "drop" THEN "drop:164" ELSE "drop:184")
    /\ UNCHANGED <<client, result, server, calls, dropVars, envVars>>

\* __main__ of mongodb_drop.py up to the call of list_databases.
ListMain ==
    /\ op = "list"
    /\ pc = "main"
    /\ IF "MONGODB_CONNECTION_STRING" \notin env THEN ExitAt("drop:128")
       ELSE /\ pc' = "start"
            /\ UNCHANGED <<exitCode, ret>>
    /\ UNCHANGED <<client, result, server, calls, dropVars, envVars>>

\* __main__ of mongodb_import.py up to the call: the three variables are
\* required.
ImportMain ==
    /\ op = "import"
    /\ pc = "main"
    /\ IF env # EnvNames THEN ExitAt("import:131")
       ELSE /\ pc' = "start"
            /\ UNCHANGED <<exitCode, ret>>
    /\ UNCHANGED <<client, result, server, calls, dropVars, envVars>>

\* __main__ of mongodb_export.py up to the call: the variables are read and
\* passed on as they are.
ExportMain ==
    /\ op = "export"
    /\ pc = "main"
    /\ pc' = "start"
    /\ UNCHANGED <<exitCode, ret, client, result, server, calls, dropVars, envVars>>

\* --------------------------------------------------- drop_mongodb_database

\* except Exception: print, return False; the client is not closed.
DropRaise ==
    /\ pc' = "done"
    /\ result' = "False"
    /\ ret' = "drop:89"
    /\ UNCHANGED client

\* print, client.close(), return False at the given line.
DropCancel(line) ==
    /\ pc' = "done"
    /\ client' = "closed"
    /\ result' = "False"
    /\ ret' = line

\* client = pymongo.MongoClient(connection_string)
DropConnect ==
    /\ op \in {"drop", "force"}
    /\ pc = "start"
    /\ \/ /\ client' = "open"
          /\ pc' = "check"
          /\ UNCHANGED <<result, ret>>
       \/ DropRaise
    /\ UNCHANGED <<exitCode, server, calls, dropVars, envVars>>

\* An existence check that reports the absence and goes on.
DropCheckGoesOn ==
    /\ op \in {"drop", "force"}
    /\ pc = "check"
    /\ calls' = Append(calls, "list_database_names")
    /\ found' = IF InList(database_name, ListDatabaseNames(server))
                THEN "present" ELSE "absent"
    /\ pc' = "info"
    /\ UNCHANGED <<client, result, ret, exitCode, server, confirm, database_name, inputs,
                   response1, response2, response3, rechecked, envVars>>

\* if database_name not in client.list_database_names(): close, return False
DropCheck ==
    /\ op \in {"drop", "force"}
    /\ pc = "check"
    /\ calls' = Append(calls, "list_database_names")
    /\ \/ /\ InList(database_name, ListDatabaseNames(server))
          /\ found' = "present"
          /\ pc' = "info"
          /\ UNCHANGED <<client, result, ret>>
       \/ /\ ~InList(database_name, ListDatabaseNames(server))
          /\ found' = "absent"
          /\ DropCancel("drop:19")
       \/ /\ DropRaise
          /\ UNCHANGED found
    /\ UNCHANGED <<exitCode, server, confirm, database_name, inputs,
                   response1, response2, response3, rechecked, envVars>>

\* The calls of lines 23 and 31: list_collection_names, then count_documents
\* for each collection.
InfoCalls(srv, d) ==
    <<"list_collection_names">>
        \o [i \in 1..Cardinality(ListCollectionNames(srv, d)) |-> "count_documents"]

\* collections = db.list_collection_names(); count_documents for each; then
\* if not confirm: the gates, else the drop.
DropInfo ==
    /\ op \in {"drop", "force"}
    /\ pc = "info"
    /\ \/ /\ calls' = calls \o InfoCalls(server, database_name)
          /\ pc' = IF confirm THEN "drop" ELSE "gateA"
          /\ UNCHANGED <<client, result, ret>>
       \/ /\ \E k \in 1..Len(InfoCalls(server, database_name)) :
                 calls' = calls \o SubSeq(InfoCalls(server, database_name), 1, k)
          /\ DropRaise
    /\ UNCHANGED <<exitCode, server, dropVars, envVars>>

\* if response1 not in ['yes', 'y']
GateAAccepts(r) == r \in {<<"yes">>, <<"y">>}

\* A second gate that accepts any name.
GateBAcceptsAny(r, name) == TRUE

\* if response2 != database_name
GateBAccepts(r, name) == r = Text(name)

\* A third gate that accepts any token.
GateCAcceptsAny(r) == TRUE

\* if response3 != 'DELETE'
GateCAccepts(r) == r = <<"DELETE">>

\* response1 = input(...).lower().strip(); anything but yes or y cancels.
DropGateA ==
    /\ op \in {"drop", "force"}
    /\ pc = "gateA"
    /\ \/ \E line \in Lines :
             /\ inputs' = Append(inputs, line)
             /\ response1' = Strip(Lower(line))
             /\ IF GateAAccepts(response1')
                THEN pc' = "gateB" /\ UNCHANGED <<client, result, ret>>
                ELSE DropCancel("drop:52")
       \/ /\ DropRaise
          /\ UNCHANGED <<inputs, response1>>
    /\ UNCHANGED <<exitCode, server, calls, confirm, database_name, found,
                   response2, response3, rechecked, envVars>>

\* response2 = input("Database name: ").strip(); a mismatch cancels.
DropGateB ==
    /\ op \in {"drop", "force"}
    /\ pc = "gateB"
    /\ \/ \E line \in Lines :
             /\ inputs' = Append(inputs, line)
             /\ response2' = Strip(line)
             /\ IF GateBAccepts(response2', database_name)
                THEN pc' = "gateC" /\ UNCHANGED <<client, result, ret>>
                ELSE DropCancel("drop:63")
       \/ /\ DropRaise
          /\ UNCHANGED <<inputs, response2>>
    /\ UNCHANGED <<exitCode, server, calls, confirm, database_name, found,
                   response1, response3, rechecked, envVars>>

\* response3 = input(...).strip(); anything but DELETE cancels.
DropGateC ==
    /\ op \in {"drop", "force"}
    /\ pc = "gateC"
    /\ \/ \E line \in Lines :
             /\ inputs' = Append(inputs, line)
             /\ response3' = Strip(line)
             /\ IF GateCAccepts(response3')
                THEN pc' = "drop" /\ UNCHANGED <<client, result, ret>>
                ELSE DropCancel("drop:71")
       \/ /\ DropRaise
          /\ UNCHANGED <<inputs, response3>>
    /\ UNCHANGED <<exitCode, server, calls, confirm, database_name, found,
                   response1, response2, rechecked, envVars>>

\* client.drop_database(database_name); when the call raises, the server may
\* or may not have carried it out.
DropIssue ==
    /\ op \in {"drop", "force"}
    /\ pc = "drop"
    /\ calls' = Append(calls, "drop_database")
    /\ \/ /\ server' = DropDatabase(server, database_name)
          /\ pc' = "verify"
          /\ UNCHANGED <<client, result, ret>>
       \/ /\ server' \in {server, DropDatabase(server, database_name)}
          /\ DropRaise
    /\ UNCHANGED <<exitCode, dropVars, envVars>>

\* A verification that reports success whatever the server lists.
DropVerifyAlwaysTrue ==
    /\ op \in {"drop", "force"}
    /\ pc = "verify"
    /\ calls' = Append(calls, "list_database_names")
    /\ rechecked' = IF InList(database_name, ListDatabaseNames(server))
                    THEN "present" ELSE "absent"
    /\ pc' = "done"
    /\ client' = "closed"
    /\ result' = "True"
    /\ ret' = "drop:81"
    /\ UNCHANGED <<exitCode, server, confirm, database_name, inputs, found,
                   response1, response2, response3, envVars>>

\* if database_name not in client.list_database_names(): close, return True
\* else: close, return False
DropVerify ==
    /\ op \in {"drop", "force"}
    /\ pc = "verify"
    /\ calls' = Append(calls, "list_database_names")
    /\ \/ /\ ~InList(database_name, ListDatabaseNames(server))
          /\ rechecked' = "absent"
          /\ pc' = "done"
          /\ client' = "closed"
          /\ result' = "True"
          /\ ret' = "drop:81"
       \/ /\ InList(database_name, ListDatabaseNames(server))
          /\ rechecked' = "present"
          /\ DropCancel("drop:85")
       \/ /\ DropRaise
          /\ UNCHANGED rechecked
    /\ UNCHANGED <<exitCode, server, confirm, database_name, inputs, found,
                   response1, response2, response3, envVars>>

\* __main__, drop and force: if success: print, else: print, sys.exit(1)
DropMainExit ==
    /\ op \in {"drop", "force"}
    /\ pc = "done"
    /\ pc' = "exited"
    /\ exitCode' = IF result = "True" THEN 0 ELSE 1
    /\ UNCHANGED <<client, result, ret, server, calls, dropVars, envVars>>

\* Another client of the server writes a document into a user database while
\* the drop tool runs, which creates the database when it does not exist.
OtherClientWrites ==
    /\ op \in {"drop", "force"}
    /\ pc \notin {"done", "exited"}
    /\ envWrites < MaxEnvWrites
    /\ envWrites' = envWrites + 1
    /\ \E d \in UserDbs :
           server' = [server EXCEPT ![d][<<"u">>] =
                          Collection(server[d][<<"u">>].docs \cup {BsonDoc(1)})]
    /\ UNCHANGED <<nonDropVars, pc, client, result, ret, exitCode, calls, dropVars>>

NextDrop ==
    \/ DropMain
    \/ DropConnect
    \/ DropCheck
    \/ DropInfo
    \/ DropGateA
    \/ DropGateB
    \/ DropGateC
    \/ DropIssue
    \/ DropVerify
    \/ DropMainExit
    \/ OtherClientWrites

SpecDrop == InitDrop /\ [][NextDrop]_vars

\* ------------------------------------------------- import_mongodb_database

\* The snapshot roots an import may start from: the directory of the source
\* database is missing, or it holds any of the files.
InitImportFs ==
    { [EmptyFs EXCEPT !["app"] = [exists |-> e, files |-> IF e THEN F ELSE {}]]
      : e \in BOOLEAN, F \in SUBSET FileNames }

\* python3 mongodb_import.py; the names are those of DATABASE_NAME and
\* TARGET_DATABASE_NAME where they are set.
\* The database that is not the target starts in one state: import does not
\* touch it.
InitImport ==
    /\ InitCommon
    /\ ~DbExists(server, "config")
    /\ op = "import"
    /\ env \in SUBSET EnvNames
    /\ confirm = FALSE
    /\ database_name = "app"
    /\ source_database_name = "app"
    /\ target_database_name \in UserDbs
    /\ target_database_name = "app" => DbExists(server, "bak")
    /\ target_database_name = "bak" => server["app"] = [c \in CollNames |-> Collection({})]
    /\ fs \in InitImportFs

\* f.endswith('.json')
EndsWithJson(f) == f # <<>> /\ f[Len(f)] = ".json"

\* json_file.replace('.json', ''): every occurrence is removed.
CollectionNameOf(f) == SelectSeq(f, LAMBDA t : t # ".json")

\* A test that takes every unit to hold documents.
TruthyAlways(u) == TRUE

\* not documents: an empty list and an empty mapping are false.
Truthy(u) == u.docs # <<>>

\* convert_json_to_bson on a unit: a list is converted item by item, a
\* mapping as one document.
convert_json_to_bson(u) ==
    [u EXCEPT !.docs = [i \in 1..Len(u.docs) |-> ConvertDoc(u.docs[i])]]

\* The commands that change the server.
WriteCmds == {"drop", "insert_many", "insert_one", "drop_database"}

\* The number of write commands sent after the first start calls.
WritesSince(cs, start) == Cardinality({i \in (start + 1)..Len(cs) : cs[i] \in WriteCmds})

\* The server accepts the first k documents of ds: none repeats an _id of the
\* collection or of an earlier document of the batch.
Insertable(existing, ds, k) ==
    \A i \in 1..k : ds[i] \notin existing /\ \A j \in 1..(i - 1) : ds[j] # ds[i]

\* The collection after the first k documents of ds were inserted.
InsertFirst(coll, ds, k) ==
    IF k = 0 THEN coll ELSE Collection(coll.docs \cup {ds[i] : i \in 1..k})

\* The target collection of the unit at hand.
TargetCollection(srv) == srv[target_database_name][collection_name]

\* The record of the unit at hand once it was processed.
Finished(outcome, unit, srv, cs, n) ==
    [file |-> json_file, unit |-> unit, before |-> cur.before,
     after |-> TargetCollection(srv), outcome |-> outcome,
     writes |-> WritesSince(cs, cur.start), inserted |-> n]

\* A unit that could not be read.
Unreadable == [kind |-> "unreadable", docs |-> <<>>]

\* except Exception: print, return False; the client is not closed.
ImportRaise ==
    /\ pc' = "done"
    /\ result' = "False"
    /\ ret' = "import:117"
    /\ UNCHANGED client

\* client = pymongo.MongoClient(connection_string); target_db = client[...]
ImportConnect ==
    /\ op = "import"
    /\ pc = "start"
    /\ \/ /\ client' = "open"
          /\ pc' = "dircheck"
          /\ UNCHANGED <<result, ret>>
       \/ ImportRaise
    /\ UNCHANGED <<args, otherVars, exitCode, server, fs, calls, dropLocals, envWrites, localVars,
                   importVars, exportVars, listVars>>

\* if not os.path.exists(source_directory): print, return False
ImportDirCheck ==
    /\ op = "import"
    /\ pc = "dircheck"
    /\ IF fs[source_database_name].exists
       THEN /\ pc' = "listdir"
            /\ UNCHANGED <<result, ret>>
       ELSE /\ pc' = "done"
            /\ result' = "False"
            /\ ret' = "import:52"
    /\ UNCHANGED <<args, otherVars, client, exitCode, server, fs, calls, dropLocals, envWrites,
                   localVars, importVars, exportVars, listVars>>

\* json_files = [f for f in os.listdir(...) if f.endswith('.json')];
\* if not json_files: print, return False
ImportListDir ==
    /\ op = "import"
    /\ pc = "listdir"
    /\ \/ /\ \E order \in Orders({f \in fs[source_database_name].files : EndsWithJson(f)}) :
                 json_files' = order
          /\ IF json_files' = <<>>
             THEN /\ pc' = "done"
                  /\ result' = "False"
                  /\ ret' = "import:59"
             ELSE /\ pc' = "loop"
                  /\ UNCHANGED <<result, ret>>
       \/ /\ ImportRaise
          /\ UNCHANGED json_files
    /\ UNCHANGED <<args, otherVars, client, exitCode, server, fs, calls, dropLocals, envWrites,
                   localVars, json_file, total_documents, cur, last, exportVars, listVars>>

\* for json_file in json_files: collection_name = json_file.replace('.json', '');
\* after the last one: print the total, client.close(), return True
ImportLoop ==
    /\ op = "import"
    /\ pc = "loop"
    /\ IF json_files = <<>>
       THEN /\ pc' = "done"
            /\ client' = "closed"
            /\ result' = "True"
            /\ ret' = "import:113"
            /\ UNCHANGED <<json_files, json_file, collection_name, cur, last>>
       ELSE /\ json_file' = Head(json_files)
            /\ json_files' = Tail(json_files)
            /\ collection_name' = CollectionNameOf(Head(json_files))
            /\ cur' = [before |-> server[target_database_name][collection_name'],
                       start |-> Len(calls)]
            /\ last' = NoLast
            /\ pc' = "read"
            /\ UNCHANGED <<client, result, ret>>
    /\ UNCHANGED <<args, otherVars, exitCode, server, fs, calls, dropLocals, envWrites, documents,
                   total_documents, exportVars, listVars>>

\* with open(file_path) as f: documents = json.load(f);
\* if not documents: print, continue
ImportRead ==
    /\ op = "import"
    /\ pc = "read"
    /\ \/ \E u \in Units :
             /\ documents' = u
             /\ IF Truthy(u)
                THEN /\ pc' = "count"
                     /\ UNCHANGED last
                ELSE /\ pc' = "loop"
                     /\ last' = Finished("skipped", u, server, calls, 0)
             /\ UNCHANGED <<client, result, ret>>
       \/ /\ ImportRaise
          /\ last' = Finished("failed", Unreadable, server, calls, 0)
          /\ UNCHANGED documents
    /\ UNCHANGED <<args, otherVars, exitCode, server, fs, calls, dropLocals, envWrites,
                   collection_name, json_files, json_file, total_documents, cur,
                   exportVars, listVars>>

\* A count whose result never leads to the clearing of the collection.
ImportCountNeverClears ==
    /\ op = "import"
    /\ pc = "count"
    /\ calls' = Append(calls, "count_documents")
    /\ pc' = "insert"
    /\ UNCHANGED <<client, result, ret, last>>
    /\ UNCHANGED <<args, otherVars, exitCode, server, fs, dropLocals, envWrites, localVars,
                   json_files, json_file, total_documents, cur, exportVars, listVars>>

\* collection = target_db[collection_name];
\* existing_count = collection.count_documents({}); if existing_count > 0: ...
ImportCount ==
    /\ op = "import"
    /\ pc = "count"
    /\ calls' = Append(calls, "count_documents")
    /\ \/ /\ pc' = IF CountDocuments(server, target_database_name, collection_name) > 0
                   THEN "clear" ELSE "insert"
          /\ UNCHANGED <<client, result, ret, last>>
       \/ /\ ImportRaise
          /\ last' = Finished("failed", documents, server, calls', 0)
    /\ UNCHANGED <<args, otherVars, exitCode, server, fs, dropLocals, envWrites, localVars,
                   json_files, json_file, total_documents, cur, exportVars, listVars>>

\* collection.drop(); when the call raises, the server may or may not have
\* carried it out.
ImportClear ==
    /\ op = "import"
    /\ pc = "clear"
    /\ calls' = Append(calls, "drop")
    /\ \/ /\ server' = [server EXCEPT ![target_database_name][collection_name] =
                            NoCollection]
          /\ pc' = "insert"
          /\ UNCHANGED <<client, result, ret, last>>
       \/ /\ server' \in {server,
                          [server EXCEPT ![target_database_name][collection_name] =
                               NoCollection]}
          /\ ImportRaise
          /\ last' = Finished("failed", documents, server', calls', 0)
    /\ UNCHANGED <<args, otherVars, exitCode, fs, dropLocals, envWrites, localVars,
                   json_files, json_file, total_documents, cur, exportVars, listVars>>

\* The documents the insert sends: the converted documents of the unit; an
\* empty mapping is one document, which the driver gives a fresh _id.
ToInsert(u) ==
    IF u.kind = "dict" /\ u.docs = <<>>
    THEN <<BsonDoc(0)>>
    ELSE convert_json_to_bson(u).docs

\* if isinstance(converted_documents, list): if converted_documents:
\* insert_many, count inserted_ids; else: insert_one, count 1.  A batch is
\* inserted in order and stops at the first document the server refuses or
\* cannot be reached for.
ImportInsert ==
    /\ op = "import"
    /\ pc = "insert"
    /\ LET ds == ToInsert(documents)
           coll == TargetCollection(server)
           into(k) == [server EXCEPT ![target_database_name][collection_name] =
                           InsertFirst(coll, ds, k)]
       IN  IF documents.kind = "list" /\ ds = <<>>
           THEN /\ last' = Finished("nothing_to_insert", documents, server, calls, 0)
                /\ pc' = "loop"
                /\ UNCHANGED <<client, result, ret, server, calls, total_documents>>
           ELSE /\ calls' = Append(calls, IF documents.kind = "list"
                                          THEN "insert_many" ELSE "insert_one")
                /\ \/ /\ Insertable(coll.docs, ds, Len(ds))
                      /\ server' = into(Len(ds))
                      /\ total_documents' = total_documents + Len(ds)
                      /\ last' = Finished("inserted", documents, server', calls', Len(ds))
                      /\ pc' = "loop"
                      /\ UNCHANGED <<client, result, ret>>
                   \/ /\ \E k \in 0..Len(ds) :
                             /\ Insertable(coll.docs, ds, k)
                             /\ server' = into(k)
                             /\ last' = Finished("failed", documents, server', calls', k)
                      /\ ImportRaise
                      /\ UNCHANGED total_documents
    /\ UNCHANGED <<args, otherVars, exitCode, fs, dropLocals, envWrites, localVars,
                   json_files, json_file, cur, exportVars, listVars>>

\* __main__: if success: print, else: print, sys.exit(1)
ImportMainExit ==
    /\ op = "import"
    /\ pc = "done"
    /\ pc' = "exited"
    /\ exitCode' = IF result = "True" THEN 0 ELSE 1
    /\ UNCHANGED <<args, otherVars, client, result, ret, server, fs, calls, dropLocals, envWrites,
                   localVars, importVars, exportVars, listVars>>

NextImport ==
    \/ ImportMain
    \/ ImportConnect
    \/ ImportDirCheck
    \/ ImportListDir
    \/ ImportLoop
    \/ ImportRead
    \/ ImportCount
    \/ ImportClear
    \/ ImportInsert
    \/ ImportMainExit

SpecImport == InitImport /\ [][NextImport]_vars

\* ------------------------------------------------- export_mongodb_database

\* The snapshot roots an export may start from: the directory of the database
\* is missing, or it holds any of the files of an earlier run.
InitExportFs(d) ==
    { [EmptyFs EXCEPT ![d] = [exists |-> e, files |-> IF e THEN F ELSE {}]]
      : e \in BOOLEAN, F \in SUBSET FileNames }

\* python3 mongodb_export.py; database_name is the value of DATABASE_NAME, None
\* when it is not set.  The database that is not exported starts in one
\* state: export does not read it.
InitExport ==
    /\ InitCommon
    /\ ~DbExists(server, "config")
    /\ op = "export"
    /\ env \in {e \in SUBSET EnvNames : "TARGET_DATABASE_NAME" \in e}
    /\ confirm = FALSE
    /\ database_name \in (IF "DATABASE_NAME" \in env THEN UserDbs ELSE {None})
    /\ database_name = None => server["app"] = [c \in CollNames |-> Collection({})]
    /\ source_database_name = "app"
    /\ target_database_name = "app"
    /\ database_name = "app" => DbExists(server, "bak")
    /\ database_name = "bak" => server["app"] = [c \in CollNames |-> Collection({})]
    /\ fs \in (IF database_name = None THEN {EmptyFs} ELSE InitExportFs(database_name))

\* json.dump(documents, cls=JSONEncoder): the unit written for a list.
EncodeUnit(ds) == ListUnit([i \in 1..Len(ds) |-> EncodeDoc(ds[i])])

\* f"{database_name}/{collection_name}.json", within the database's directory.
UnitNameOf(c) == c \o <<".json">>

\* A unit that was written in full, and one whose writing stopped midway.
FullUnit(u) == [state |-> "full", unit |-> u]

PartialUnit == [state |-> "partial", unit |-> Unreadable]

\* The function f with x mapped to v.
With(f, x, v) == [y \in DOMAIN f \cup {x} |-> IF y = x THEN v ELSE f[y]]

\* except Exception: print, return False; the client is not closed.
ExportRaise ==
    /\ pc' = "done"
    /\ result' = "False"
    /\ ret' = "export:56"
    /\ UNCHANGED client

\* client = pymongo.MongoClient(connection_string); db = client[database_name]
\* Without a connection string the client is one of the default server on
\* this host; client[None] raises.
ExportConnect ==
    /\ op = "export"
    /\ pc = "start"
    /\ \/ /\ database_name # None
          /\ client' = "open"
          /\ pc' = "mkdir"
          /\ UNCHANGED <<result, ret>>
       \/ /\ database_name = None
          /\ client' = "open"
          /\ pc' = "done"
          /\ result' = "False"
          /\ ret' = "export:56"
       \/ ExportRaise
    /\ UNCHANGED <<args, otherVars, exitCode, server, fs, calls, dropLocals, envWrites, localVars,
                   importVars, exportVars, listVars>>

\* if not os.path.exists(full_output_directory): os.makedirs(...)
ExportMakeDirs ==
    /\ op = "export"
    /\ pc = "mkdir"
    /\ \/ /\ fs' = [fs EXCEPT ![database_name].exists = TRUE]
          /\ pc' = "enumerate"
          /\ UNCHANGED <<result, ret>>
       \/ /\ ~fs[database_name].exists
          /\ ExportRaise
          /\ UNCHANGED fs
    /\ UNCHANGED <<args, otherVars, client, exitCode, server, calls, dropLocals, envWrites,
                   localVars, importVars, exportVars, listVars>>

\* collections = db.list_collection_names()
ExportEnumerate ==
    /\ op = "export"
    /\ pc = "enumerate"
    /\ calls' = Append(calls, "list_collection_names")
    /\ \/ /\ \E order \in Orders(ListCollectionNames(server, database_name)) :
                 collections' = order
          /\ enumerated' = "ok"
          /\ pc' = "loop"
          /\ UNCHANGED <<result, ret>>
       \/ /\ enumerated' = "failed"
          /\ ExportRaise
          /\ UNCHANGED collections
    /\ UNCHANGED <<args, otherVars, client, exitCode, server, fs, dropLocals, envWrites,
                   localVars, importVars, exported, listVars>>

\* for collection_name in collections: ...; after the last one: print,
\* client.close(), return True
ExportLoop ==
    /\ op = "export"
    /\ pc = "loop"
    /\ IF collections = <<>>
       THEN /\ pc' = "done"
            /\ client' = "closed"
            /\ result' = "True"
            /\ ret' = "export:52"
            /\ UNCHANGED <<collections, collection_name>>
       ELSE /\ collection_name' = Head(collections)
            /\ collections' = Tail(collections)
            /\ pc' = "find"
            /\ UNCHANGED <<client, result, ret>>
    /\ UNCHANGED <<args, otherVars, exitCode, server, fs, calls, dropLocals, envWrites, documents,
                   importVars, enumerated, exported, listVars>>

\* documents = list(collection.find()): every document, in the server's order.
ExportFind ==
    /\ op = "export"
    /\ pc = "find"
    /\ calls' = Append(calls, "find")
    /\ \/ /\ \E order \in Orders(server[database_name][collection_name].docs) :
                 documents' = ListUnit(order)
          /\ pc' = "write"
          /\ UNCHANGED <<client, result, ret>>
       \/ /\ ExportRaise
          /\ UNCHANGED documents
    /\ UNCHANGED <<args, otherVars, exitCode, server, fs, dropLocals, envWrites, collection_name,
                   importVars, exportVars, listVars>>

\* A write whose failure is passed over: the loop goes on.
ExportWriteGoesOn ==
    /\ op = "export"
    /\ pc = "write"
    /\ pc' = "loop"
    /\ fs' = [fs EXCEPT ![database_name].files = @ \cup {UnitNameOf(collection_name)}]
    /\ \/ exported' = With(exported, UnitNameOf(collection_name),
                           FullUnit(EncodeUnit(documents.docs)))
       \/ exported' = With(exported, UnitNameOf(collection_name), PartialUnit)
    /\ UNCHANGED <<client, result, ret>>
    /\ UNCHANGED <<args, otherVars, exitCode, server, calls, dropLocals, envWrites, localVars,
                   importVars, collections, enumerated, listVars>>

\* with open(file_path, 'w') as f: json.dump(documents, f, cls=JSONEncoder, ...)
\* open may fail, which leaves the file as it was; json.dump may fail, which
\* leaves a file that holds a part of the unit.
ExportWrite ==
    /\ op = "export"
    /\ pc = "write"
    /\ \/ /\ fs' = [fs EXCEPT ![database_name].files =
                        @ \cup {UnitNameOf(collection_name)}]
          /\ exported' = With(exported, UnitNameOf(collection_name),
                              FullUnit(EncodeUnit(documents.docs)))
          /\ pc' = "loop"
          /\ UNCHANGED <<client, result, ret>>
       \/ /\ fs' = [fs EXCEPT ![database_name].files =
                        @ \cup {UnitNameOf(collection_name)}]
          /\ exported' = With(exported, UnitNameOf(collection_name), PartialUnit)
          /\ ExportRaise
       \/ /\ ExportRaise
          /\ UNCHANGED <<fs, exported>>
    /\ UNCHANGED <<args, otherVars, exitCode, server, calls, dropLocals, envWrites, localVars,
                   importVars, collections, enumerated, listVars>>

\* __main__: if success: print, else: print, sys.exit(1)
ExportMainExit ==
    /\ op = "export"
    /\ pc = "done"
    /\ pc' = "exited"
    /\ exitCode' = IF result = "True" THEN 0 ELSE 1
    /\ UNCHANGED <<args, otherVars, client, result, ret, server, fs, calls, dropLocals, envWrites,
                   localVars, importVars, exportVars, listVars>>

NextExport ==
    \/ ExportMain
    \/ ExportConnect
    \/ ExportMakeDirs
    \/ ExportEnumerate
    \/ ExportLoop
    \/ ExportFind
    \/ ExportWrite
    \/ ExportMainExit

SpecExport == InitExport /\ [][NextExport]_vars

\* ---------------------------------------------------------- list_databases

\* python3 mongodb_drop.py list
InitList ==
    /\ InitCommon
    /\ op = "list"
    /\ env \in {EnvNames, EnvNames \ {"MONGODB_CONNECTION_STRING"}}
    /\ confirm = FALSE
    /\ database_name = "app"
    /\ source_database_name = "app"
    /\ target_database_name = "app"
    /\ fs = EmptyFs

\* The sum of the document counts of the collections cs of database d.
RECURSIVE TotalDocs(_, _, _)
TotalDocs(srv, d, cs) ==
    IF cs = {} THEN 0
    ELSE LET c == CHOOSE x \in cs : TRUE
         IN  CountDocuments(srv, d, c) + TotalDocs(srv, d, cs \ {c})

\* A test that takes no database for one of the server's own.
IsSystemDbNever(d) == FALSE

\* if db_name in ['admin', 'local', 'config']
IsSystemDb(d) == d \in ReservedDbs

\* except Exception: print, return []; the client is not closed.
ListRaise ==
    /\ pc' = "done"
    /\ result' = "[]"
    /\ ret' = "drop:120"
    /\ UNCHANGED client

\* client = pymongo.MongoClient(connection_string)
ListConnect ==
    /\ op = "list"
    /\ pc = "start"
    /\ \/ /\ client' = "open"
          /\ pc' = "names"
          /\ UNCHANGED <<result, ret>>
       \/ ListRaise
    /\ UNCHANGED <<args, otherVars, exitCode, server, fs, calls, dropLocals, envWrites, localVars,
                   importVars, exportVars, listVars>>

\* databases = client.list_database_names()
ListNames ==
    /\ op = "list"
    /\ pc = "names"
    /\ calls' = Append(calls, "list_database_names")
    /\ \/ /\ databases' = ListDatabaseNames(server)
          /\ dbQueue' = ListDatabaseNames(server)
          /\ pc' = "loop"
          /\ UNCHANGED <<result, ret>>
       \/ /\ ListRaise
          /\ UNCHANGED <<databases, dbQueue>>
    /\ UNCHANGED <<args, otherVars, client, exitCode, server, fs, dropLocals, envWrites, localVars,
                   importVars, exportVars, report>>

\* for db_name in databases: if db_name in ['admin', 'local', 'config']:
\* continue; count the collections and their documents, print them;
\* after the last one: client.close(), return databases
ListLoop ==
    /\ op = "list"
    /\ pc = "loop"
    /\ IF dbQueue = <<>>
       THEN /\ pc' = "done"
            /\ client' = "closed"
            /\ result' = "databases"
            /\ ret' = "drop:116"
            /\ UNCHANGED <<dbQueue, report, calls>>
       ELSE LET d == Head(dbQueue)
                cs == ListCollectionNames(server, d)
                counting == <<"list_collection_names">>
                                \o [i \in 1..Cardinality(cs) |-> "count_documents"]
            IN  IF IsSystemDb(d)
                THEN /\ dbQueue' = Tail(dbQueue)
                     /\ UNCHANGED <<pc, client, result, ret, report, calls>>
                ELSE \/ /\ dbQueue' = Tail(dbQueue)
                        /\ calls' = calls \o counting
                        /\ report' = With(report, d,
                                          [collections |-> Cardinality(cs),
                                           documents |-> TotalDocs(server, d, cs)])
                        /\ UNCHANGED <<pc, client, result, ret>>
                     \/ /\ \E k \in 1..Len(counting) :
                               calls' = calls \o SubSeq(counting, 1, k)
                        /\ ListRaise
                        /\ UNCHANGED <<dbQueue, report>>
    /\ UNCHANGED <<args, otherVars, exitCode, server, fs, dropLocals, envWrites, localVars,
                   importVars, exportVars, databases>>

\* __main__, list: databases = list_databases(...); the process ends with 0.
ListMainExit ==
    /\ op = "list"
    /\ pc = "done"
    /\ pc' = "exited"
    /\ exitCode' = 0
    /\ UNCHANGED <<args, otherVars, client, result, ret, server, fs, calls, dropLocals, envWrites,
                   localVars, importVars, exportVars, listVars>>

NextList ==
    \/ ListMain
    \/ ListConnect
    \/ ListNames
    \/ ListLoop
    \/ ListMainExit

SpecList == InitList /\ [][NextList]_vars

\* -------------------------------------------------- the export tool again

\* python3 mongodb_export.py once more, after a run that ended well: between
\* the two runs a collection of the database was created or dropped.
ExportAgain ==
    /\ op = "export"
    /\ pc = "exited"
    /\ exitCode = 0
    /\ runs < MaxRuns
    /\ runs' = runs + 1
    /\ \E c \in CollNames :
           server' = [server EXCEPT ![database_name][c] =
                          IF @.exists THEN NoCollection ELSE Collection({BsonDoc(1)})]
    /\ pc' = "main"
    /\ client' = "none"
    /\ result' = "none"
    /\ ret' = "none"
    /\ exitCode' = -1
    /\ calls' = <<>>
    /\ collection_name' = <<>>
    /\ documents' = ListUnit(<<>>)
    /\ collections' = <<>>
    /\ enumerated' = "no"
    /\ exported' = [f \in {} |-> 0]
    /\ UNCHANGED <<args, fs, dropLocals, envWrites, importVars, listVars, pureVars>>

\* The first run starts with the variables set and without units of the
\* database in the snapshot root.
InitSnapshot ==
    /\ InitExport
    /\ env = EnvNames
    /\ fs[database_name].files = {}

NextSnapshot ==
    \/ NextExport
    \/ ExportAgain

SpecSnapshot == InitSnapshot /\ [][NextSnapshot]_vars

\* ------------------------------------------------------- the codec alone

\* No tool runs: the server is empty and nothing has been done.
InitAlone ==
    /\ InitLocals
    /\ server = [d \in DbNames |-> [c \in CollNames |-> NoCollection]]
    /\ env = EnvNames
    /\ confirm = FALSE
    /\ database_name = "app"
    /\ source_database_name = "app"
    /\ target_database_name = "app"
    /\ fs = EmptyFs

\* A date and a time of day.
Moment == <<"2024-01-02", "T", "03:04:05">>

\* The datetimes of documents: without tzinfo, as the driver returns them,
\* with a fraction of a second, in UTC, and two hours east of it.
Datetimes ==
    {Datetime(Moment, ""), Datetime(Moment \o <<".123000">>, ""),
     Datetime(Moment, "+00:00"), Datetime(Moment, "+02:00")}

\* The texts of documents: a name, 24 characters that are not hexadecimal, a
\* moment, a moment in UTC, an impossible date, and a moment that goes on.
Texts ==
    {<<"Ann">>, <<"zzzzzzzzzzzzzzzzzzzzzzzz">>, Moment, Moment \o <<"Z">>,
     <<"2024-13-45", "T", "03:04:05">>, Moment \o <<" ", "Ann">>}

\* The values json knows that hold no other value.
PortableLeaves == {Null, Bool(TRUE), Num(1), HexId(1)} \cup {Str(s) : s \in Texts}

\* The values that hold no other value.
Leaves == PortableLeaves \cup {ObjectId(1), Binary} \cup Datetimes

\* The mappings of one key and the sequences of at most one element over V.
Nest(V) ==
    {Dict([k \in {key} |-> v]) : key \in {"_id", "at"}, v \in V}
        \cup {List(<<>>)} \cup {List(<<v>>) : v \in V}

Values == Leaves \cup Nest(Leaves)

\* What may stand under _id.
IdValues == {ObjectId(1), HexId(1), Str(<<"zzzzzzzzzzzzzzzzzzzzzzzz">>), Str(<<"Ann">>)}

\* The documents of a collection.
NativeDocs == {[_id |-> i, at |-> a, x |-> v] : i \in IdValues, a \in Leaves, v \in Values}

\* The value is one json.load returns.
RECURSIVE IsPortable(_)
IsPortable(v) ==
    CASE v.type = "dict" -> \A k \in DOMAIN v.items : IsPortable(v.items[k])
      [] v.type = "list" -> \A i \in 1..Len(v.items) : IsPortable(v.items[i])
      [] OTHER -> v.type \in {"str", "number", "bool", "null"}

\* The documents of a serialized unit.
PortableDocs == {d \in NativeDocs : \A k \in DOMAIN d : IsPortable(d[k])}

\* A document is exported and imported again, or a document of a unit is
\* imported.
InitCodec ==
    /\ InitAlone
    /\ exported_name = <<>>
    /\ file_name = <<>>
    /\ imported_name = <<>>
    /\ restored = NoDoc
    /\ \/ /\ op = "roundtrip"
          /\ pc = "encode"
          /\ native \in NativeDocs
          /\ portable = NoDoc
       \/ /\ op = "decode"
          /\ pc = "decode"
          /\ native = NoDoc
          /\ portable \in PortableDocs

\* json.dump(documents, f, cls=JSONEncoder) on the document.
CodecEncode ==
    /\ op = "roundtrip"
    /\ pc = "encode"
    /\ LET e == EncodeDoc(native)
       IN  IF \E k \in DOMAIN e : HasRaised(e[k])
           THEN /\ pc' = "raised"
                /\ UNCHANGED portable
           ELSE /\ pc' = "decode"
                /\ portable' = e
    /\ UNCHANGED <<toolVars, native, restored, exported_name, file_name, imported_name>>

\* converted_documents = convert_json_to_bson(documents) on the document.
CodecDecode ==
    /\ op \in {"roundtrip", "decode"}
    /\ pc = "decode"
    /\ restored' = ConvertDoc(portable)
    /\ pc' = "decoded"
    /\ UNCHANGED <<toolVars, native, portable, exported_name, file_name, imported_name>>

NextCodec ==
    \/ CodecEncode
    \/ CodecDecode

SpecCodec == InitCodec /\ [][NextCodec]_vars

\* --------------------------------------------------- the names of units

NameTokens == {"u", "v", "-", ".json"}

\* The names of collections: the server takes none that begins with a dot.
Names ==
    {c \in UNION {[1..k -> NameTokens] : k \in 1..MaxName} : c[1] # ".json"}

InitNames ==
    /\ InitAlone
    /\ native = NoDoc
    /\ portable = NoDoc
    /\ restored = NoDoc
    /\ op = "naming"
    /\ pc = "name"
    /\ exported_name \in Names
    /\ file_name = <<>>
    /\ imported_name = <<>>

\* export: file_name = f"{database_name}/{collection_name}.json"
NameUnit ==
    /\ op = "naming"
    /\ pc = "name"
    /\ file_name' = UnitNameOf(exported_name)
    /\ pc' = "listed"
    /\ UNCHANGED <<toolVars, native, portable, restored, exported_name, imported_name>>

\* import: the file is a unit if f.endswith('.json');
\* collection_name = json_file.replace('.json', '')
NameDerive ==
    /\ op = "naming"
    /\ pc = "listed"
    /\ IF EndsWithJson(file_name)
       THEN /\ imported_name' = CollectionNameOf(file_name)
            /\ pc' = "derived"
       ELSE /\ pc' = "passed"
            /\ UNCHANGED imported_name
    /\ UNCHANGED <<toolVars, native, portable, restored, exported_name, file_name>>

NextNames ==
    \/ NameUnit
    \/ NameDerive

SpecNames == InitNames /\ [][NextNames]_vars

\* ------------------------------------------------------------ every tool

Init == InitDrop \/ InitList \/ InitExport \/ InitImport

Next == NextDrop \/ NextList \/ NextExport \/ NextImport

Spec == Init /\ [][Next]_vars

\* ---------------------------------------------------------------- claims

\* The drop command has been sent to the server.
DropIssued == InList("drop_database", calls)

\* The function has returned.
Returned == pc \in {"done", "exited"}

\* The three gates were read in order and each was answered as it asks:
\* yes or y in any case, the database name, DELETE, surrounding blanks aside.
ThreeGatesPassed ==
    /\ Len(inputs) = 3
    /\ Strip(Lower(inputs[1])) \in {<<"yes">>, <<"y">>}
    /\ Strip(inputs[2]) = <<database_name>>
    /\ Strip(inputs[3]) = <<"DELETE">>

\* C1: the drop command is sent only after the existence check found the
\* database and either confirm was set or the three gates were passed in
\* order; a run that was cancelled, or found the database absent, has sent no
\* drop command.
C1_DropOnlyWhenConfirmed ==
    /\ DropIssued =>
          /\ found = "present"
          /\ calls[1] = "list_database_names"
          /\ confirm \/ ThreeGatesPassed
          /\ confirm => inputs = <<>>
    /\ ret \in {"drop:19", "drop:52", "drop:63", "drop:71"} => ~DropIssued
    /\ pc \in {"start", "check", "info", "gateA", "gateB", "gateC", "drop"} => ~DropIssued

\* C1: an interactive run passed the three gates and dropped the database.
C1_Witness ==
    /\ ~confirm
    /\ ThreeGatesPassed
    /\ DropIssued
    /\ pc = "exited"
    /\ result = "True"

\* C2: in an interactive run on an existing database, yes at Gate A followed
\* by a name at Gate B that does not match ends the run: the function has
\* returned False at line 63, no drop command was sent, and Gate C was not read.
C2_GateBMismatchAborts ==
    ( /\ ~confirm
      /\ Len(inputs) >= 2
      /\ Strip(Lower(inputs[1])) \in {<<"yes">>, <<"y">>}
      /\ Strip(inputs[2]) # <<database_name>> )
    => /\ Returned
       /\ result = "False"
       /\ ret = "drop:63"
       /\ ~DropIssued
       /\ Len(inputs) = 2
       /\ response3 = Unset

\* C2: a run that was cancelled at Gate B after a yes at Gate A has exited.
C2_Witness ==
    /\ ~confirm
    /\ Len(inputs) = 2
    /\ Strip(Lower(inputs[1])) \in {<<"yes">>, <<"y">>}
    /\ Strip(inputs[2]) # <<database_name>>
    /\ found = "present"
    /\ pc = "exited"
    /\ exitCode = 1

\* C3: when the existence check finds the database absent, with confirm set or
\* not, the function has returned False at line 19 with the client closed, no
\* line was read from the console, no drop command was sent, and the process
\* exits with 1.
C3_AbsentAborts ==
    found = "absent" =>
        /\ Returned
        /\ result = "False"
        /\ ret = "drop:19"
        /\ inputs = <<>>
        /\ ~DropIssued
        /\ calls = <<"list_database_names">>
        /\ pc = "exited" => exitCode = 1

\* C3: a force drop of an absent database has exited with 1.
C3_Witness ==
    /\ op = "force"
    /\ confirm
    /\ found = "absent"
    /\ pc = "exited"
    /\ exitCode = 1

\* C4: the function returns True exactly when the check after the drop found
\* the database absent, returns False at line 85 when that check found it
\* present, and a True return follows a drop command and its re-check.
C4_DroppedIffAbsentAtRecheck ==
    /\ result = "True" <=> rechecked = "absent"
    /\ rechecked = "present" => Returned /\ result = "False" /\ ret = "drop:85"
    /\ rechecked # "unchecked" =>
          /\ Len(calls) >= 2
          /\ calls[Len(calls) - 1] = "drop_database"
          /\ calls[Len(calls)] = "list_database_names"
    /\ pc = "verify" => calls[Len(calls)] = "drop_database"
    /\ result = "True" => DropIssued

\* C4: the database was still present after the drop and the run failed.
C4_Witness ==
    /\ rechecked = "present"
    /\ DropIssued
    /\ pc = "exited"
    /\ exitCode = 1

\* The set of the documents of a converted unit.
UnitDocs(u) == {convert_json_to_bson(u).docs[i] : i \in 1..Len(u.docs)}

\* The number of top-level document entries of a unit: the length of a list,
\* 1 for a standalone document, 0 for an empty mapping.
EntriesOf(u) == Len(u.docs)

\* C5 (as stated): whenever an operation has returned, the connection it
\* opened has been closed.
C5_ClosedOnEveryExit == Returned => client # "open"

\* C6 (as stated): when a unit of N documents was processed without error for
\* a target collection that held M > 0 documents, the collection holds exactly
\* N documents afterward.
C6_ReplaceAsStated ==
    ( /\ last.outcome \in {"inserted", "skipped"}
      /\ Cardinality(last.before.docs) > 0 )
    => Cardinality(last.after.docs) = EntriesOf(last.unit)

\* C6 (amended): when a unit of N >= 1 documents was inserted for a target
\* collection that held M > 0 documents, the collection holds exactly the N
\* documents of the unit afterward, and none of the M it held; a unit of no
\* documents leaves the M documents in place.
C6_Replace ==
    /\ ( /\ last.outcome = "inserted"
         /\ Cardinality(last.before.docs) > 0 )
       => /\ EntriesOf(last.unit) >= 1
          /\ Cardinality(last.after.docs) = EntriesOf(last.unit)
          /\ last.after.docs = UnitDocs(last.unit)
          /\ last.inserted = EntriesOf(last.unit)
    /\ ( /\ last.outcome = "skipped"
         /\ Cardinality(last.before.docs) > 0 )
       => /\ EntriesOf(last.unit) = 0
          /\ last.after = last.before

\* C6: a unit of one document replaced a collection of two.
C6_Witness ==
    /\ last.outcome = "inserted"
    /\ Cardinality(last.before.docs) = 2
    /\ EntriesOf(last.unit) = 1
    /\ Cardinality(last.after.docs) = 1
    /\ pc = "exited"

\* C7: a unit of N documents inserted into an empty target collection leaves
\* exactly N documents in it, 1 for a standalone document, and N is what the
\* run adds to its total; a unit of no documents sends no write to the server,
\* changes nothing, and does not make the run return False.
C7_BatchCount ==
    /\ ( /\ last.outcome = "inserted"
         /\ Cardinality(last.before.docs) = 0 )
       => /\ Cardinality(last.after.docs) = EntriesOf(last.unit)
          /\ last.inserted = EntriesOf(last.unit)
          /\ last.unit.kind = "dict" => Cardinality(last.after.docs) = 1
          /\ last.writes = 1
    /\ last.outcome = "skipped"
       => /\ EntriesOf(last.unit) = 0
          /\ last.writes = 0
          /\ last.inserted = 0
          /\ last.after = last.before
          /\ result # "False"
          /\ pc \in {"loop", "done", "exited"}
    /\ ( /\ last.outcome \notin {"none", "failed"}
         /\ EntriesOf(last.unit) = 0 )
       => last.outcome = "skipped"

\* C7: a list of two documents was loaded into an empty collection.
C7_Witness ==
    /\ last.outcome = "inserted"
    /\ last.unit.kind = "list"
    /\ EntriesOf(last.unit) = 2
    /\ last.before.docs = {}
    /\ Cardinality(last.after.docs) = 2
    /\ total_documents = 2

\* C8 (as stated): when one unit fails, every remaining unit of the directory
\* is still processed in the same run.
C8_ContinuesPastFailure ==
    (Returned /\ last.outcome = "failed") => json_files = <<>>

\* C9 (as stated): after a unit was processed, or its insert failed, the target
\* collection holds exactly the documents it held before or exactly the unit's
\* documents.  Left aside are a batch of which the server took a part and a
\* failure of a call other than the insert.
C9_AllOrNothing ==
    ( /\ last.outcome \in {"inserted", "skipped", "failed"}
      /\ last.inserted \in {0, EntriesOf(last.unit)}
      /\ last.outcome = "failed" =>
             /\ calls # <<>>
             /\ calls[Len(calls)] \in {"insert_many", "insert_one"} )
    => \/ last.after.docs = last.before.docs
       \/ last.after.docs = UnitDocs(last.unit)

\* The name of the unit export writes for a collection is among what it wrote
\* in full, with every document of the collection encoded, each once.
FullyWritten(c) ==
    /\ UnitNameOf(c) \in DOMAIN exported
    /\ UnitNameOf(c) \in fs[database_name].files
    /\ exported[UnitNameOf(c)].state = "full"
    /\ exported[UnitNameOf(c)].unit.kind = "list"
    /\ LET ds == exported[UnitNameOf(c)].unit.docs
       IN  /\ {ds[i] : i \in 1..Len(ds)}
                 = {[_id |-> HexId(d._id.n)] : d \in server[database_name][c].docs}
           /\ Len(ds) = Cardinality(server[database_name][c].docs)

\* C10: export returns True only if the enumeration succeeded and every
\* enumerated collection was fetched and its unit written in full; when the
\* enumeration fails the run has returned False at once, nothing was fetched
\* and no unit was written.
C10_ExportAllOrFailure ==
    /\ (op = "export" /\ result = "True")
       => /\ enumerated = "ok"
          /\ \A c \in ListCollectionNames(server, database_name) : FullyWritten(c)
          /\ \A f \in DOMAIN exported : exported[f].state = "full"
          /\ Cardinality({i \in 1..Len(calls) : calls[i] = "find"})
                = Cardinality(ListCollectionNames(server, database_name))
    /\ enumerated = "failed"
       => /\ Returned
          /\ result = "False"
          /\ ret = "export:56"
          /\ exported = <<>>
          /\ ~InList("find", calls)

\* C10: an export of two collections, one of them holding two documents,
\* returned True.
C10_Witness ==
    /\ op = "export"
    /\ result = "True"
    /\ pc = "exited"
    /\ exitCode = 0
    /\ Cardinality(DOMAIN exported) = 2
    /\ \E f \in DOMAIN exported : Len(exported[f].unit.docs) = 2

\* The environment variables the tool at hand requires.
Required ==
    CASE op = "import" -> {"MONGODB_CONNECTION_STRING", "DATABASE_NAME", "TARGET_DATABASE_NAME"}
      [] op = "export" -> {"MONGODB_CONNECTION_STRING", "DATABASE_NAME"}
      [] OTHER -> {"MONGODB_CONNECTION_STRING"}

\* C11: when an environment variable the tool requires is not set, no client
\* is constructed and no command is sent, and the process ends with a
\* non-zero exit code.
C11_ConfigErrorBeforeClient ==
    ~(Required \subseteq env) =>
        /\ client = "none"
        /\ calls = <<>>
        /\ pc = "exited" => exitCode # 0

\* C12: the exit code matches the outcome: a run whose function ended in its
\* except branch, as it does when the server cannot be reached or the
\* enumeration fails, exits with a non-zero code, and a run exits with zero
\* only when its function succeeded.
C12_ExitCodeMatchesOutcome ==
    pc = "exited" =>
        /\ ret \in {"drop:89", "drop:120", "import:117", "export:56"} => exitCode # 0
        /\ exitCode = 0 => result \in {"True", "databases"}

\* The text is one decoding recovers a type from under the key: 24
\* hexadecimal characters under _id, or a text that reads as a timestamp.
ReadsAsTyped(key, v) ==
    /\ IsStr(v)
    /\ \/ key = "_id" /\ "n" \in DOMAIN v
       \/ /\ ~(key = "_id" /\ StrLen(v) = ObjectIdTextLen)
          /\ MatchesDate(v)
          /\ fromisoformat(ReplaceZ(v.text)).type = "datetime"

\* Somewhere within the value a text stands under a key that decoding
\* recovers a type from.
RECURSIVE HoldsTyped(_)
HoldsTyped(v) ==
    CASE v.type = "dict" ->
             \E k \in DOMAIN v.items :
                 ReadsAsTyped(k, v.items[k]) \/ HoldsTyped(v.items[k])
      [] v.type = "list" -> \E i \in 1..Len(v.items) : HoldsTyped(v.items[i])
      [] OTHER -> FALSE

\* A document with an identifier under _id, a timestamp under at, and under x
\* a text, number, boolean, null, mapping or sequence of such values.
C13_Covered ==
    /\ op = "roundtrip"
    /\ native._id.type = "ObjectId"
    /\ native.at.type = "datetime"
    /\ IsPortable(native.x)

\* C13 as stated: every covered document is restored as it was.
C13_RoundTripAsStated ==
    (C13_Covered /\ pc = "decoded") => restored = native

\* C13: a covered document is restored as it was when none of its other
\* texts stands under a key that decoding recovers a type from.
C13_RoundTrip ==
    (/\ C13_Covered
     /\ pc = "decoded"
     /\ ~ReadsAsTyped("x", native.x)
     /\ ~HoldsTyped(native.x)) => restored = native

\* A document with a timestamp that shows a fraction of a second and, in a
\* sequence, a text that looks like a timestamp was restored as it was.
C13_Witness ==
    /\ C13_Covered
    /\ pc = "decoded"
    /\ native.at = Datetime(Moment \o <<".123000">>, "")
    /\ native.x = List(<<Str(Moment)>>)
    /\ portable._id = HexId(1)
    /\ portable.at = Str(Moment \o <<".123000">>)
    /\ restored = native

\* C14: decoding raises nothing; 24 characters under _id that are not
\* hexadecimal stay the text they were, a text that matches the pattern of a
\* date and does not parse stays the text it was, and the other keys are
\* decoded all the same.
C14_DecodeFallsBack ==
    pc = "decoded" =>
        /\ DOMAIN restored = DOMAIN portable
        /\ \A k \in DOMAIN restored : ~HasRaised(restored[k])
        /\ (IsStr(portable._id) /\ StrLen(portable._id) = ObjectIdTextLen
                /\ "n" \notin DOMAIN portable._id) => restored._id = portable._id
        /\ \A k \in DOMAIN portable :
               (/\ IsStr(portable[k])
                /\ MatchesDate(portable[k])
                /\ fromisoformat(ReplaceZ(portable[k].text)).type = "raised")
                   => restored[k] = portable[k]
        /\ portable._id = HexId(1) => restored._id = ObjectId(1)
        /\ \A k \in DOMAIN portable \ {"_id"} :
               /\ portable[k] = Str(Moment \o <<"Z">>) =>
                      restored[k] = Datetime(Moment, "+00:00")
               /\ portable[k] = Str(Moment) => restored[k] = Datetime(Moment, "")
               /\ portable[k].type \in {"number", "bool", "null"} =>
                      restored[k] = portable[k]

\* A unit's document with 24 characters under _id that are not hexadecimal
\* and an impossible date was decoded: both stayed texts, and the timestamp
\* beside them was recovered.
C14_Witness ==
    /\ op = "decode"
    /\ pc = "decoded"
    /\ portable._id = Str(<<"zzzzzzzzzzzzzzzzzzzzzzzz">>)
    /\ StrLen(portable._id) = ObjectIdTextLen
    /\ portable.at = Str(<<"2024-13-45", "T", "03:04:05">>)
    /\ portable.x = Str(Moment \o <<"Z">>)
    /\ restored._id = portable._id
    /\ restored.at = portable.at
    /\ restored.x = Datetime(Moment, "+00:00")

\* C15: every timestamp is encoded as a text that ends with the indicator of
\* UTC, Z or +00:00.
C15_TimestampsInUTC ==
    (op = "roundtrip" /\ pc \in {"decode", "decoded"} /\ native.at.type = "datetime") =>
        /\ IsStr(portable.at)
        /\ portable.at.text[Len(portable.at.text)] \in {"Z", "+00:00"}

\* The counts of a database: its collections, and the documents in them.
CountsOf(d) ==
    [collections |-> Cardinality({c \in CollNames : server[d][c].exists}),
     documents |-> Cardinality({<<c, x>> \in CollNames \X {BsonDoc(i) : i \in DocIds} :
                                    x \in server[d][c].docs})]

\* C16 as stated: list_databases neither reports nor returns admin, local or
\* config, and reports the counts of every other database.
C16_ListAsStated ==
    (op = "list" /\ result = "databases") =>
        /\ \A d \in {"admin", "local", "config"} :
               d \notin DOMAIN report /\ ~InList(d, databases)
        /\ \A d \in DbNames \ {"admin", "local", "config"} :
               DbExists(server, d) => d \in DOMAIN report /\ report[d] = CountsOf(d)

\* C16: list_databases never reports admin, local or config, and what it
\* reports for a database are its counts; when it returns the list, it has
\* reported every other database of the server, and the list is the one the
\* server gave, with the server's own databases in it.
C16_List ==
    op = "list" =>
        /\ DOMAIN report \cap {"admin", "local", "config"} = {}
        /\ \A d \in DOMAIN report : report[d] = CountsOf(d)
        /\ result = "databases" =>
               /\ DOMAIN report = {d \in DbNames \ {"admin", "local", "config"} :
                                       DbExists(server, d)}
               /\ \A d \in DbNames : InList(d, databases) <=> DbExists(server, d)

\* The list was returned from a server with the three reserved databases and
\* a database of two collections with documents.
C16_Witness ==
    /\ op = "list"
    /\ pc = "exited"
    /\ result = "databases"
    /\ \A d \in {"admin", "local", "config", "app", "bak"} : InList(d, databases)
    /\ DOMAIN report = {"app", "bak"}
    /\ report["app"].collections = Cardinality(CollNames)
    /\ report["app"].documents > Cardinality(CollNames)

\* C17: a unit without documents, an empty sequence or an empty mapping, is
\* skipped: no command is sent for it, its collection is what it was, and
\* the run goes on; nothing else is skipped.
C17_EmptyUnitSkipped ==
    /\ (op = "import" /\ last.outcome \notin {"none", "failed"} /\ last.unit.docs = <<>>)
           => last.outcome = "skipped"
    /\ last.outcome = "skipped" =>
           /\ last.unit.docs = <<>>
           /\ Len(calls) = cur.start
           /\ last.after = last.before
           /\ TargetCollection(server) = last.before
           /\ pc \in {"loop", "done", "exited"}
           /\ result \in {"none", "True"}
           /\ pc = "loop" => client = "open"

\* An empty mapping was skipped, its collection holds the documents it held,
\* and the next unit is to be begun.
C17_Witness ==
    /\ last.outcome = "skipped"
    /\ last.unit = DictUnit(<<>>)
    /\ Cardinality(last.before.docs) = MaxDoc
    /\ TargetCollection(server) = last.before
    /\ json_files # <<>>
    /\ pc = "loop"

\* C18: the collection import derives from the unit export writes for a
\* collection is that collection.
C18_NameSurvives ==
    pc \in {"derived", "passed"} => pc = "derived" /\ imported_name = exported_name

\* C19: after a run of the export tool that ended well, the units in the
\* directory of the database are those of the collections the database has.
C19_SnapshotMatchesLatest ==
    (op = "export" /\ pc = "exited" /\ exitCode = 0) =>
        {f \in fs[database_name].files : EndsWithJson(f)}
            = {UnitNameOf(c) : c \in ListCollectionNames(server, database_name)}

====
